---- MODULE Spec2Model ----
(***************************************************************************)
(* Model of waflib/Tools/fc_scan.py: the Fortran dependency scanner.       *)
(*                                                                         *)
(* One session context (ctx) carries the two lazily created caches; a      *)
(* fortran_parser object is created per scan and walks the include graph   *)
(* with the worklist self.waiting.  The file system (file texts, directory *)
(* lookups) is the environment: the capture lists of a file and the result *)
(* of a directory lookup are chosen when the program first asks for them.  *)
(***************************************************************************)
EXTENDS Integers, Sequences, FiniteSets, TLC

\* ---------------------------------------------------------------- universe
\* File nodes (waflib.Node.Node objects of files) and directory nodes.
Nodes == {"A", "B"}
Dirs == {"d1", "d2"}
\* The value find_resource returns when nothing is found.
None == "None"
\* Strings the include pattern can capture, and module names.
Filenames == {"inc.h", "USE@m"}
Modules == {"m"}

\* ------------------------------------------------------------------ bounds
MaxIncs == 2
MaxUses == 1
MaxMods == 1
MaxScans == 2
\* Scans per session in the specification with fairness.
MaxFairScans == 1
\* Pieces a statement given to MOD_REGEX is put together from.
MaxChunks == 5
\* Callers that scan at the same time, each with a parser of its own.
MaxCallers == 2
\* Direct calls of find_deps and cached_find_resource per session.
MaxCalls == 4
\* Stand-ins for DEPS_CACHE_SIZE and FILE_CACHE_SIZE (100000 in the source),
\* scaled down so that the caches fill up and evict.
DEPS_CACHE_SIZE == 1
FILE_CACHE_SIZE == 2

\* ----------------------------------------------------------------- helpers
RECURSIVE BSeq(_, _)
BSeq(S, n) ==
  IF n = 0 THEN {<<>>}
  ELSE LET shorter == BSeq(S, n - 1)
       IN shorter \cup {Append(s, x) : s \in {t \in shorter : Len(t) = n - 1}, x \in S}

Contains(s, x) == \E k \in 1..Len(s) : s[k] = x

Count(s, x) == Cardinality({k \in 1..Len(s) : s[k] = x})

NoDup(s) == \A j, k \in 1..Len(s) : s[j] = s[k] => j = k

\* The captures of the three patterns on one file text.
DepsRecords == [incs : BSeq(Filenames, MaxIncs),
                uses : BSeq(Modules, MaxUses),
                mods : BSeq(Modules, MaxMods)]

\* The parser's include path lists handed to the constructor.
IncPathChoices == {<<"d1", "d2">>}

\* --------------------------------------------------------------- lru_cache
\* Utils.lru_cache: a bounded map, here the sequence of <<key, value>>
\* pairs from the most recently accessed to the least recently accessed.
LruHas(cache, key) == \E k \in 1..Len(cache) : cache[k][1] = key

LruIndex(cache, key) == CHOOSE k \in 1..Len(cache) : cache[k][1] = key

LruVal(cache, key) == cache[LruIndex(cache, key)][2]

LruWithout(cache, key) ==
  LET RECURSIVE drop(_)
      drop(s) == IF s = <<>> THEN <<>>
                 ELSE IF Head(s)[1] = key THEN Tail(s)
                 ELSE <<Head(s)>> \o drop(Tail(s))
  IN drop(cache)

\* A get that leaves the order alone: first in, first out.
LruGet_fifo(cache, key) == cache

\* cache[key]: the access moves the entry to the front.
LruGet(cache, key) == <<<<key, LruVal(cache, key)>>>> \o LruWithout(cache, key)

\* cache[key] = val: a new key evicts the least recently accessed entry
\* once maxlen entries are stored.
LruSet(cache, key, val, maxlen) ==
  IF LruHas(cache, key) THEN <<<<key, val>>>> \o LruWithout(cache, key)
  ELSE IF Len(cache) < maxlen THEN <<<<key, val>>>> \o cache
  ELSE <<<<key, val>>>> \o SubSeq(cache, 1, Len(cache) - 1)

\* ------------------------------------------------------------------- state
VARIABLES
  files,      \* environment: capture lists of the file texts determined so far
  fs,         \* environment: results of the directory lookups determined so far
  ctx,        \* session context: attribute name -> cache
  scans,      \* number of scans started in the session
  pc,         \* position of the running parser
  seen,       \* self.seen
  nodes,      \* self.nodes
  names,      \* self.names
  incpaths,   \* self.incpaths
  waiting,    \* self.waiting
  deps,       \* iter: the record find_deps returned
  todo,       \* iter: the part of deps.incs still to go through
  filename,   \* tryfind_header: its argument
  i,          \* tryfind_header: index of the next include path
  extracted,  \* history: nodes passed to find_deps in this traversal
  submitted,  \* history: filenames passed to tryfind_header in this traversal
  probes,     \* history: calls of cached_find_resource in this traversal
  reads,      \* history: node -> number of node.read() calls in the session
  lookups,    \* history: calls of find_resource in the session
  last,       \* history: what the last step did
  root,       \* history: the node the running scan was started with
  mru,        \* history: per cache, its keys from the last accessed one on
  stmt,       \* pattern matching: the statement the pattern is applied to
  mods_found, \* pattern matching: what re_mod.findall gave for it
  th,         \* concurrent scans: caller -> its parser and its position
  heap,       \* concurrent scans: the lru_cache objects constructed so far
  cctx        \* concurrent scans: context attribute -> lru_cache object

vars == <<files, fs, ctx, scans, pc, seen, nodes, names, incpaths,
          waiting, deps, todo, filename, i, extracted, submitted, probes,
          reads, lookups, last, root, mru, stmt, mods_found, th, heap, cctx>>

\* What a single sequential session leaves alone.
aux == <<stmt, mods_found, th, heap, cctx>>

EmptyDeps == [incs |-> <<>>, uses |-> <<>>, mods |-> <<>>]

\* A session before its first scan, nothing of the file system asked yet.
InitSession(tree) ==
  /\ files = [n \in tree |-> {}]
  /\ fs = [key \in Dirs \X Filenames |-> {}]
  /\ ctx = <<>>
  /\ scans = 0
  /\ pc = "idle"
  /\ seen = {}
  /\ nodes = <<>>
  /\ names = <<>>
  /\ incpaths = <<>>
  /\ waiting = <<>>
  /\ deps = EmptyDeps
  /\ todo = <<>>
  /\ filename = ""
  /\ i = 1
  /\ extracted = <<>>
  /\ submitted = <<>>
  /\ probes = <<>>
  /\ reads = [n \in tree |-> 0]
  /\ lookups = [key \in Dirs \X Filenames |-> 0]
  /\ last = [op |-> "init"]
  /\ root = None
  /\ mru = [cache_fc_scan_deps |-> <<>>, cache_fc_scan_node |-> <<>>]

\* No statement under the rules, no concurrent caller.
InitAux ==
  /\ stmt = <<>>
  /\ mods_found = <<>>
  /\ th = <<>>
  /\ heap = <<>>
  /\ cctx = <<>>

Init == InitSession(Nodes) /\ InitAux

\* The key k becomes the last accessed one of the keys s.
MruTouch(s, k) == <<k>> \o SelectSeq(s, LAMBDA x : x # k)

\* ------------------------------------------------------------ find_deps
\* try: cache = node.ctx.cache_fc_scan_deps; except AttributeError: a new
\* lru_cache is installed on the context.
deps_cache(c) ==
  IF "cache_fc_scan_deps" \in DOMAIN c THEN c.cache_fc_scan_deps ELSE <<>>

\* A find_deps that never finds its entry and reads the file every time.
deps_cache_hit_never(cache, node) == FALSE

\* try: return cache[node]; except KeyError: read the file.
deps_cache_hit(cache, node) == LruHas(cache, node)

\* What node.read() gives for a file that cannot be read: it raises.
Unreadable == [incs |-> <<>>, uses |-> <<>>, mods |-> <<>>, errno |-> "EIO"]

\* node.read() followed by the three findall: the captures of the text, or
\* the error of the read; fixed from the first read on.
read_findall(node) ==
  IF files[node] = {} THEN DepsRecords \cup {Unreadable} ELSE files[node]

\* A read whose error is swallowed, the file counting as an empty text.
read_raises_never(t) == FALSE

\* txt = node.read() raises and find_deps is left.
read_raises(t) == t = Unreadable

find_deps(node) ==
  LET cache == deps_cache(ctx)
  IN IF deps_cache_hit(cache, node)
     THEN /\ deps' = LruVal(cache, node)
          /\ ctx' = ("cache_fc_scan_deps" :> LruGet(cache, node)) @@ ctx
          /\ mru' = [mru EXCEPT !.cache_fc_scan_deps = MruTouch(@, node)]
          /\ UNCHANGED <<files, reads>>
          /\ last' = [op |-> "find_deps", node |-> node, hit |-> TRUE]
     ELSE \E t \in read_findall(node) :
          /\ files' = [files EXCEPT ![node] = {t}]
          /\ reads' = [reads EXCEPT ![node] = @ + 1]
          /\ IF read_raises(t)
             THEN /\ ctx' = ("cache_fc_scan_deps" :> cache) @@ ctx
                  /\ last' = [op |-> "IOError", node |-> node]
                  /\ UNCHANGED <<deps, mru>>
             ELSE /\ deps' = t
                  /\ ctx' = ("cache_fc_scan_deps" :>
                               LruSet(cache, node, t, DEPS_CACHE_SIZE)) @@ ctx
                  /\ mru' = [mru EXCEPT
                               !.cache_fc_scan_deps = MruTouch(@, node)]
                  /\ last' = [op |-> "find_deps", node |-> node,
                              hit |-> FALSE]

\* ------------------------------------------------- cached_find_resource
node_cache(c) ==
  IF "cache_fc_scan_node" \in DOMAIN c THEN c.cache_fc_scan_node ELSE <<>>

\* A cached_find_resource that only finds the positive results it stored.
node_cache_hit_positive(cache, key) ==
  LruHas(cache, key) /\ LruVal(cache, key) # None

\* try: return cache[key]; except KeyError: ask the directory.
node_cache_hit(cache, key) == LruHas(cache, key)

\* node.find_resource(filename): a file node or None, fixed from the first
\* lookup on.
find_resource(key) ==
  IF fs[key] = {} THEN DOMAIN files \cup {None} ELSE fs[key]

\* A key that leaves the directory out.
cache_key_filename(node, fname) == <<"", fname>>

\* key = (node, filename)
cache_key(node, fname) == <<node, fname>>

\* cached_find_resource(node, filename) returning ret.
cached_find_resource(node, fname, ret) ==
  LET cache == node_cache(ctx)
      key == cache_key(node, fname)
  IN IF node_cache_hit(cache, key)
     THEN /\ ret = LruVal(cache, key)
          /\ ctx' = ("cache_fc_scan_node" :> LruGet(cache, key)) @@ ctx
          /\ mru' = [mru EXCEPT !.cache_fc_scan_node = MruTouch(@, key)]
          /\ UNCHANGED <<fs, lookups>>
     ELSE /\ ret \in find_resource(<<node, fname>>)
          /\ fs' = [fs EXCEPT ![<<node, fname>>] = {ret}]
          /\ lookups' = [lookups EXCEPT ![<<node, fname>>] = @ + 1]
          /\ ctx' = ("cache_fc_scan_node" :>
                       LruSet(cache, key, ret, FILE_CACHE_SIZE)) @@ ctx
          /\ mru' = [mru EXCEPT !.cache_fc_scan_node = MruTouch(@, key)]

\* ----------------------------------------------------------------- iter
\* An iter without its test of self.seen.
iter_skip_never(node, sn) == FALSE

\* if node in self.seen: return
iter_skip(node, sn) == <<"node", node>> \in sn

\* A loop over deps.incs without its test of self.seen.
inc_skip_never(x, sn) == FALSE

\* if x in self.seen: continue
inc_skip(x, sn) == <<"str", x>> \in sn

\* name = "USE@%s" % x
use_name(x) == "USE@" \o x

\* name = "MOD@%s" % x
mod_name(x) == "MOD@" \o x

\* An append without the membership test.
append_name_always(ns, name) == Append(ns, name)

\* if not name in self.names: self.names.append(name)
append_name(ns, name) == IF Contains(ns, name) THEN ns ELSE Append(ns, name)

RECURSIVE add_uses(_, _)
add_uses(ns, xs) ==
  IF xs = <<>> THEN ns
  ELSE add_uses(append_name(ns, use_name(Head(xs))), Tail(xs))

RECURSIVE add_mods(_, _)
add_mods(ns, xs) ==
  IF xs = <<>> THEN ns
  ELSE add_mods(append_name(ns, mod_name(Head(xs))), Tail(xs))

\* A loop over the include paths that never takes the "if found" branch.
is_found_never(found) == FALSE

\* A loop over the include paths that takes the first result, None included.
is_found_always(found) == TRUE

\* if found: the truth value of what cached_find_resource returned.
is_found(found) == found # None

\* A worklist used as a stack: the node found goes to the front.
waiting_push_front(w, found) == <<found>> \o w

\* A tryfind_header that forgets to queue the node it found.
waiting_push_none(w, found) == w

\* self.waiting.append(found)
waiting_push(w, found) == Append(w, found)

\* A constructor that leaves the list of an earlier parser in place.
init_nodes_kept(old) == old

\* self.nodes = []
init_nodes(old) == <<>>

\* ------------------------------------------------------------- actions
\* fortran_parser(incpaths) followed by the first line of start(node).
start(node, paths) ==
  /\ pc \in {"idle", "raised"}
  /\ scans < MaxScans
  /\ scans' = scans + 1
  /\ root' = node
  /\ seen' = {}
  /\ nodes' = init_nodes(nodes)
  /\ names' = <<>>
  /\ incpaths' = paths
  /\ waiting' = <<node>>
  /\ pc' = "loop"
  /\ extracted' = <<>>
  /\ submitted' = <<>>
  /\ probes' = <<>>
  /\ last' = [op |-> "start", node |-> node]
  /\ UNCHANGED <<files, fs, ctx, deps, todo, filename, i, reads,
                 lookups, mru, aux>>

\* nd = self.waiting.pop(0); self.iter(nd) up to the loop over deps.incs.
iter(nd) ==
  /\ pc = "loop"
  /\ waiting # <<>>
  /\ nd = Head(waiting)
  /\ waiting' = Tail(waiting)
  /\ IF iter_skip(nd, seen)
     THEN /\ last' = [op |-> "seen", node |-> nd]
          /\ UNCHANGED <<files, ctx, reads, deps, todo, seen, pc, extracted,
                         mru>>
     ELSE /\ find_deps(nd)
          /\ extracted' = Append(extracted, nd)
          /\ IF \E t \in files'[nd] : read_raises(t)
             THEN /\ pc' = "raised"
                  /\ UNCHANGED <<seen, todo>>
             ELSE /\ seen' = seen \cup {<<"node", nd>>}
                  /\ todo' = deps'.incs
                  /\ pc' = "incs"
  /\ UNCHANGED <<fs, scans, nodes, names, incpaths, filename, i,
                 submitted, probes, lookups, root, aux>>

\* One round of "for x in deps.incs", up to the call of tryfind_header.
iter_inc(x) ==
  /\ pc = "incs"
  /\ todo # <<>>
  /\ x = Head(todo)
  /\ todo' = Tail(todo)
  /\ IF inc_skip(x, seen)
     THEN /\ last' = [op |-> "continue", filename |-> x]
          /\ UNCHANGED <<seen, filename, i, pc, submitted>>
     ELSE /\ seen' = seen \cup {<<"str", x>>}
          /\ filename' = x
          /\ i' = 1
          /\ pc' = "tryfind"
          /\ submitted' = Append(submitted, x)
          /\ last' = [op |-> "tryfind_header", filename |-> x]
  /\ UNCHANGED <<files, fs, ctx, scans, nodes, names, incpaths,
                 waiting, deps, extracted, probes, reads, lookups, root, mru,
                 aux>>

\* tryfind_header: one round of "for n in self.incpaths".
tryfind_probe(found) ==
  /\ pc = "tryfind"
  /\ i <= Len(incpaths)
  /\ cached_find_resource(incpaths[i], filename, found)
  /\ probes' = Append(probes, <<incpaths[i], filename, found>>)
  /\ IF is_found(found)
     THEN /\ nodes' = Append(nodes, found)
          /\ waiting' = waiting_push(waiting, found)
          /\ pc' = "incs"
          /\ UNCHANGED i
     ELSE /\ i' = i + 1
          /\ UNCHANGED <<nodes, waiting, pc>>
  /\ last' = [op |-> "probe", filename |-> filename, found |-> found,
              hit |-> node_cache_hit(node_cache(ctx), <<incpaths[i], filename>>)]
  /\ UNCHANGED <<files, scans, seen, names, incpaths, deps, todo,
                 filename, extracted, submitted, reads, root, aux>>

\* tryfind_header: "if not found" once the include paths are exhausted.
tryfind_miss ==
  /\ pc = "tryfind"
  /\ i > Len(incpaths)
  /\ names' = append_name(names, filename)
  /\ pc' = "incs"
  /\ last' = [op |-> "miss", filename |-> filename]
  /\ UNCHANGED <<files, fs, ctx, scans, seen, nodes, incpaths,
                 waiting, deps, todo, filename, i, extracted, submitted,
                 probes, reads, lookups, root, mru, aux>>

\* iter: the loops over deps.uses and deps.mods, and the return to start.
iter_names ==
  /\ pc = "incs"
  /\ todo = <<>>
  /\ names' = add_mods(add_uses(names, deps.uses), deps.mods)
  /\ pc' = "loop"
  /\ last' = [op |-> "names"]
  /\ UNCHANGED <<files, fs, ctx, scans, seen, nodes, incpaths,
                 waiting, deps, todo, filename, i, extracted, submitted,
                 probes, reads, lookups, root, mru, aux>>

\* start: "while self.waiting" finds the list empty and start returns.
finish ==
  /\ pc = "loop"
  /\ waiting = <<>>
  /\ pc' = "idle"
  /\ last' = [op |-> "return"]
  /\ UNCHANGED <<files, fs, ctx, scans, seen, nodes, names,
                 incpaths, waiting, deps, todo, filename, i, extracted,
                 submitted, probes, reads, lookups, root, mru, aux>>

ScanStep ==
  \/ \E nd \in DOMAIN files : iter(nd)
  \/ \E x \in Filenames : iter_inc(x)
  \/ \E found \in DOMAIN files \cup {None} : tryfind_probe(found)
  \/ tryfind_miss
  \/ iter_names
  \/ finish

Next ==
  \/ \E node \in Nodes, paths \in IncPathChoices : start(node, paths)
  \/ ScanStep

Spec == Init /\ [][Next]_vars

\* start runs its loop to the end once called: a scan that has started keeps
\* taking steps.
FairNext ==
  \/ \E node \in Nodes, paths \in IncPathChoices :
       scans < MaxFairScans /\ start(node, paths)
  \/ ScanStep

FairSpec == Init /\ [][FairNext]_vars /\ WF_vars(ScanStep)

\* start(node) called again on the parser of the scan before: the
\* constructor does not run.
restart(node) ==
  /\ pc \in {"idle", "raised"}
  /\ scans > 0
  /\ scans < MaxScans
  /\ scans' = scans + 1
  /\ root' = node
  /\ waiting' = <<node>>
  /\ pc' = "loop"
  /\ extracted' = <<>>
  /\ submitted' = <<>>
  /\ probes' = <<>>
  /\ last' = [op |-> "restart", node |-> node]
  /\ UNCHANGED <<files, fs, ctx, seen, nodes, names, incpaths, deps, todo,
                 filename, i, reads, lookups, mru, aux>>

ReuseNext ==
  \/ \E node \in Nodes, paths \in IncPathChoices : start(node, paths)
  \/ \E node \in Nodes : restart(node)
  \/ ScanStep

\* A session whose callers build a parser per scan or call start again on
\* the one they have.
ReuseSpec == Init /\ [][ReuseNext]_vars

\* A session with a third file in its tree, before its only scan.
TreeNodes == Nodes \cup {"C"}

TreeInit == InitSession(TreeNodes) /\ InitAux

TreeNext ==
  \/ \E node \in TreeNodes, paths \in IncPathChoices :
       scans < MaxFairScans /\ start(node, paths)
  \/ ScanStep

TreeSpec == TreeInit /\ [][TreeNext]_vars

\* ------------------------------------------------------------ MOD_REGEX
\* A text is a sequence of characters; these are the pieces the texts under
\* test are made of.
kw_module == <<"m", "o", "d", "u", "l", "e">>

kw_MODULE == <<"M", "O", "D", "U", "L", "E">>

kw_procedure == <<"p", "r", "o", "c", "e", "d", "u", "r", "e">>

kw_intrinsic == <<"i", "n", "t", "r", "i", "n", "s", "i", "c">>

kw_non == <<"n", "o", "n", "_">>

w_bar == <<"b", "a", "r">>

w_s == <<"s">>

Chunks == {kw_module, kw_MODULE, kw_procedure, w_bar, w_s, <<" ">>, <<";">>,
           <<":", ":">>, <<"\n">>}

RECURSIVE Cat(_)
Cat(cs) == IF cs = <<>> THEN <<>> ELSE Head(cs) \o Cat(Tail(cs))

Statements == {Cat(cs) : cs \in BSeq(Chunks, MaxChunks)}

UpperAlpha == <<"A", "B", "C", "D", "E", "F", "G", "H", "I", "J", "K", "L",
                "M", "N", "O", "P", "Q", "R", "S", "T", "U", "V", "W", "X",
                "Y", "Z">>

LowerAlpha == <<"a", "b", "c", "d", "e", "f", "g", "h", "i", "j", "k", "l",
                "m", "n", "o", "p", "q", "r", "s", "t", "u", "v", "w", "x",
                "y", "z">>

\* re.I: letters compare without their case.
Lower(c) ==
  IF \E k \in 1..26 : UpperAlpha[k] = c
  THEN LowerAlpha[CHOOSE k \in 1..26 : UpperAlpha[k] = c]
  ELSE c

\* \s and \w
IsSpace(c) == c \in {" ", "\n", "\t"}

IsWord(c) ==
  \/ \E k \in 1..26 : LowerAlpha[k] = Lower(c)
  \/ c \in {"0", "1", "2", "3", "4", "5", "6", "7", "8", "9", "_"}

\* \s* and \w+ from position p: the position after the longest run.
RECURSIVE SkipWs(_, _)
SkipWs(t, p) ==
  IF p <= Len(t) /\ IsSpace(t[p]) THEN SkipWs(t, p + 1) ELSE p

RECURSIVE WordEnd(_, _)
WordEnd(t, p) ==
  IF p <= Len(t) /\ IsWord(t[p]) THEN WordEnd(t, p + 1) ELSE p

\* The letters of lit stand at position p of t.
LitAt(t, p, lit) ==
  /\ p + Len(lit) - 1 <= Len(t)
  /\ \A k \in 1..Len(lit) : Lower(t[p + k - 1]) = lit[k]

\* (?!\s*PROCEDURE) fails the match when this holds at position p.
lookahead_procedure(t, p) == LitAt(t, SkipWs(t, p), kw_procedure)

\* \s*::\s* from position p, then a word: the position of the word, or 0.
ColonsThenWord(t, p) ==
  LET e == SkipWs(t, p)
      f == SkipWs(t, e + 2)
  IN IF LitAt(t, e, <<":", ":">>) /\ WordEnd(t, f) > f THEN f ELSE 0

\* \s*,\s*(?:NON_)?INTRINSIC from position p: the position after it, or 0.
IntrinsicEnd(t, p) ==
  LET a == SkipWs(t, p)
      b == SkipWs(t, a + 1)
  IN IF ~LitAt(t, a, <<",">>) THEN 0
     ELSE IF LitAt(t, b, kw_non \o kw_intrinsic) THEN b + 13
     ELSE IF LitAt(t, b, kw_intrinsic) THEN b + 9
     ELSE 0

\* (?:\s+|(?:(?:\s*,\s*(?:NON_)?INTRINSIC)?\s*::))\s*(\w+) from position p:
\* the position where the group (\w+) begins, or 0.
ModSep(t, p) ==
  LET ws == SkipWs(t, p)
  IN IF ws > p /\ WordEnd(t, ws) > ws THEN ws
     ELSE IF IntrinsicEnd(t, p) # 0 /\ ColonsThenWord(t, IntrinsicEnd(t, p)) # 0
     THEN ColonsThenWord(t, IntrinsicEnd(t, p))
     ELSE ColonsThenWord(t, p)

\* \s*MODULE(?!\s*PROCEDURE)... from position q: where the group begins, or 0.
MatchRest(t, q) ==
  LET r == SkipWs(t, q)
  IN IF LitAt(t, r, kw_module) /\ ~lookahead_procedure(t, r + 6)
     THEN ModSep(t, r + 6)
     ELSE 0

\* ^ under re.M
LineStart(t, p) == p = 1 \/ t[p - 1] = "\n"

\* MOD_REGEX tried at position p: where the group begins, or 0.
MatchAt(t, p) ==
  IF LineStart(t, p) /\ MatchRest(t, p) # 0 THEN MatchRest(t, p)
  ELSE IF t[p] = ";" THEN MatchRest(t, p + 1)
  ELSE 0

\* The groups of the matches found from position p on, left to right, none
\* overlapping.
RECURSIVE FindAll(_, _)
FindAll(t, p) ==
  IF p > Len(t) THEN <<>>
  ELSE IF MatchAt(t, p) # 0
  THEN <<SubSeq(t, MatchAt(t, p), WordEnd(t, MatchAt(t, p)) - 1)>>
         \o FindAll(t, WordEnd(t, MatchAt(t, p)))
  ELSE FindAll(t, p + 1)

\* re_mod.findall(txt)
re_mod_findall(t) == FindAll(t, 1)

\* A statement waits to be put under the rule.
RegexInit ==
  /\ InitSession(Nodes)
  /\ stmt \in Statements
  /\ mods_found = <<>>
  /\ th = <<>>
  /\ heap = <<>>
  /\ cctx = <<>>

\* mods = re_mod.findall(txt)
findall_mods ==
  /\ last.op = "init"
  /\ mods_found' = re_mod_findall(stmt)
  /\ last' = [op |-> "findall"]
  /\ UNCHANGED <<files, fs, ctx, scans, pc, seen, nodes, names, incpaths,
                 waiting, deps, todo, filename, i, extracted, submitted,
                 probes, reads, lookups, root, mru, stmt, th, heap, cctx>>

RegexNext == findall_mods

RegexSpec == RegexInit /\ [][RegexNext]_vars

\* ------------------------------------------------------ concurrent scans
\* th[t] is the parser and the position of caller t, heap the lru_cache
\* objects constructed so far, cctx the attributes of the shared context,
\* each naming an object of heap.  A caller is between two accesses to what
\* is shared: F1..F5 in find_deps, R1..R5 in cached_find_resource.
CacheAttr(r) ==
  IF r.pc \in {"F1", "F2"} THEN "cache_fc_scan_deps" ELSE "cache_fc_scan_node"

\* start's loop up to the next call of find_deps, or to its return.
RECURSIVE PopNext(_)
PopNext(r) ==
  IF r.waiting = <<>> THEN [r EXCEPT !.pc = "done"]
  ELSE IF iter_skip(Head(r.waiting), r.seen)
  THEN PopNext([r EXCEPT !.waiting = Tail(@)])
  ELSE [r EXCEPT !.waiting = Tail(@), !.nd = Head(r.waiting), !.pc = "F1"]

\* iter's loop over deps.incs up to the next call of cached_find_resource;
\* after the loop the names of uses and mods, and back to start's loop.
RECURSIVE NextInc(_)
NextInc(r) ==
  IF r.todo = <<>>
  THEN PopNext([r EXCEPT
                  !.names = add_mods(add_uses(@, r.deps.uses), r.deps.mods)])
  ELSE IF inc_skip(Head(r.todo), r.seen)
  THEN NextInc([r EXCEPT !.todo = Tail(@)])
  ELSE [r EXCEPT !.todo = Tail(@),
                 !.seen = @ \cup {<<"str", Head(r.todo)>>},
                 !.filename = Head(r.todo), !.i = 1, !.pc = "R1"]

\* find_deps has returned d to iter.
AfterDeps(r, d) ==
  NextInc([r EXCEPT !.deps = d, !.todo = d.incs,
                    !.seen = @ \cup {<<"node", r.nd>>}])

\* cached_find_resource has returned found to tryfind_header.
AfterProbe(r, found) ==
  IF is_found(found)
  THEN NextInc([r EXCEPT !.nodes = Append(@, found),
                         !.waiting = waiting_push(@, found)])
  ELSE IF r.i + 1 > Len(r.incpaths)
  THEN NextInc([r EXCEPT !.names = append_name(@, r.filename)])
  ELSE [r EXCEPT !.i = @ + 1, !.pc = "R1"]

\* fortran_parser(paths).start(node) up to its first call of find_deps.
NewCaller(node, paths) ==
  PopNext([pc |-> "start", root |-> node, incpaths |-> paths, seen |-> {},
           nodes |-> <<>>, names |-> <<>>, waiting |-> <<node>>,
           todo |-> <<>>, deps |-> EmptyDeps, nd |-> None, filename |-> "",
           i |-> 1, cache |-> 0, ret |-> None])

\* The texts of the files that concurrent callers scan.
ConcTexts ==
  {t \in DepsRecords : t.incs \in {<<>>, <<"inc.h">>} /\ t.uses = <<>>}
    \cup {Unreadable}

conc_read(node) == IF files[node] = {} THEN ConcTexts ELSE files[node]

ConcInit ==
  /\ InitSession(Nodes)
  /\ stmt = <<>>
  /\ mods_found = <<>>
  /\ th \in [1..MaxCallers ->
               {NewCaller(n, p) : n \in Nodes, p \in IncPathChoices}]
  /\ heap = <<>>
  /\ cctx = <<>>

seqvars == <<ctx, scans, pc, seen, nodes, names, incpaths, waiting, deps,
             todo, filename, i, extracted, submitted, probes, last, root,
             mru, stmt, mods_found>>

\* try: cache = node.ctx.<attribute>
c_getattr(t) ==
  /\ th[t].pc \in {"F1", "R1"}
  /\ IF CacheAttr(th[t]) \in DOMAIN cctx
     THEN th' = [th EXCEPT ![t].cache = cctx[CacheAttr(th[t])],
                           ![t].pc = IF th[t].pc = "F1" THEN "F3" ELSE "R3"]
     ELSE th' = [th EXCEPT ![t].pc = IF th[t].pc = "F1" THEN "F2" ELSE "R2"]
  /\ UNCHANGED <<files, fs, reads, lookups, heap, cctx, seqvars>>

\* except AttributeError: cache = node.ctx.<attribute> = Utils.lru_cache(n)
c_install(t) ==
  /\ th[t].pc \in {"F2", "R2"}
  /\ heap' = Append(heap, [attr |-> CacheAttr(th[t]), data |-> <<>>])
  /\ cctx' = (CacheAttr(th[t]) :> Len(heap) + 1) @@ cctx
  /\ th' = [th EXCEPT ![t].cache = Len(heap) + 1,
                      ![t].pc = IF th[t].pc = "F2" THEN "F3" ELSE "R3"]
  /\ UNCHANGED <<files, fs, reads, lookups, seqvars>>

\* try: return cache[node]
c_get_deps(t) ==
  /\ th[t].pc = "F3"
  /\ LET cache == heap[th[t].cache].data
     IN IF deps_cache_hit(cache, th[t].nd)
        THEN /\ heap' = [heap EXCEPT
                           ![th[t].cache].data = LruGet(cache, th[t].nd)]
             /\ th' = [th EXCEPT
                         ![t] = AfterDeps(th[t], LruVal(cache, th[t].nd))]
        ELSE /\ th' = [th EXCEPT ![t].pc = "F4"]
             /\ UNCHANGED heap
  /\ UNCHANGED <<files, fs, reads, lookups, cctx, seqvars>>

\* except KeyError: txt = node.read(); deps = Deps(...)
c_read(t) ==
  /\ th[t].pc = "F4"
  /\ \E txt \in conc_read(th[t].nd) :
       /\ files' = [files EXCEPT ![th[t].nd] = {txt}]
       /\ reads' = [reads EXCEPT ![th[t].nd] = @ + 1]
       /\ IF read_raises(txt)
          THEN th' = [th EXCEPT ![t].pc = "raised"]
          ELSE th' = [th EXCEPT ![t].deps = txt, ![t].pc = "F5"]
  /\ UNCHANGED <<fs, lookups, heap, cctx, seqvars>>

\* cache[node] = deps; return deps
c_store_deps(t) ==
  /\ th[t].pc = "F5"
  /\ heap' = [heap EXCEPT ![th[t].cache].data =
                LruSet(@, th[t].nd, th[t].deps, DEPS_CACHE_SIZE)]
  /\ th' = [th EXCEPT ![t] = AfterDeps(th[t], th[t].deps)]
  /\ UNCHANGED <<files, fs, reads, lookups, cctx, seqvars>>

\* key = (node, filename); try: return cache[key]
c_get_node(t) ==
  /\ th[t].pc = "R3"
  /\ LET cache == heap[th[t].cache].data
         key == cache_key(th[t].incpaths[th[t].i], th[t].filename)
     IN IF node_cache_hit(cache, key)
        THEN /\ heap' = [heap EXCEPT ![th[t].cache].data = LruGet(cache, key)]
             /\ th' = [th EXCEPT ![t] = AfterProbe(th[t], LruVal(cache, key))]
        ELSE /\ th' = [th EXCEPT ![t].pc = "R4"]
             /\ UNCHANGED heap
  /\ UNCHANGED <<files, fs, reads, lookups, cctx, seqvars>>

\* except KeyError: ret = node.find_resource(filename)
c_find_resource(t, ret) ==
  /\ th[t].pc = "R4"
  /\ LET k == <<th[t].incpaths[th[t].i], th[t].filename>>
     IN /\ ret \in find_resource(k)
        /\ fs' = [fs EXCEPT ![k] = {ret}]
        /\ lookups' = [lookups EXCEPT ![k] = @ + 1]
  /\ th' = [th EXCEPT ![t].ret = ret, ![t].pc = "R5"]
  /\ UNCHANGED <<files, reads, heap, cctx, seqvars>>

\* cache[key] = ret; return ret
c_store_node(t) ==
  /\ th[t].pc = "R5"
  /\ heap' = [heap EXCEPT ![th[t].cache].data =
                LruSet(@, cache_key(th[t].incpaths[th[t].i], th[t].filename),
                       th[t].ret, FILE_CACHE_SIZE)]
  /\ th' = [th EXCEPT ![t] = AfterProbe(th[t], th[t].ret)]
  /\ UNCHANGED <<files, fs, reads, lookups, cctx, seqvars>>

ConcNext ==
  \E t \in 1..MaxCallers :
    \/ c_getattr(t)
    \/ c_install(t)
    \/ c_get_deps(t)
    \/ c_read(t)
    \/ c_store_deps(t)
    \/ c_get_node(t)
    \/ \E ret \in Nodes \cup {None} : c_find_resource(t, ret)
    \/ c_store_node(t)

\* Scans of one session that run at the same time.
ConcSpec == ConcInit /\ [][ConcNext]_vars

\* ------------------------------------------------- the methods called alone
\* find_deps(node) called on its own, as any holder of a parser may.
call_find_deps(node) ==
  /\ pc = "idle"
  /\ Len(extracted) + Len(probes) < MaxCalls
  /\ find_deps(node)
  /\ extracted' = Append(extracted, node)
  /\ UNCHANGED <<fs, scans, pc, seen, nodes, names, incpaths, waiting, todo,
                 filename, i, submitted, probes, lookups, root, aux>>

\* cached_find_resource(node, filename) called on its own.
call_cached_find_resource(node, fname, ret) ==
  /\ pc = "idle"
  /\ Len(extracted) + Len(probes) < MaxCalls
  /\ cached_find_resource(node, fname, ret)
  /\ probes' = Append(probes, <<node, fname, ret>>)
  /\ last' = [op |-> "lookup", found |-> ret,
              hit |-> node_cache_hit(node_cache(ctx), cache_key(node, fname))]
  /\ UNCHANGED <<files, scans, pc, seen, nodes, names, incpaths, waiting,
                 deps, todo, filename, i, extracted, submitted, reads, root,
                 aux>>

CallNext ==
  \/ \E node \in Nodes : call_find_deps(node)
  \/ \E node \in Dirs, fname \in Filenames, ret \in Nodes \cup {None} :
       call_cached_find_resource(node, fname, ret)

\* A session in which the two cached methods are called in any order.
CallSpec == Init /\ [][CallNext]_vars

TypeOK ==
  /\ pc \in {"idle", "loop", "incs", "tryfind", "raised"}
  /\ scans \in 0..MaxScans
  /\ \A k \in 1..Len(waiting) : waiting[k] \in Nodes
  /\ \A k \in 1..Len(nodes) : nodes[k] \in Nodes

\* =================================================================== claims
\* The file node the file system gives for filename f along the parser's
\* include paths: the result of the first directory that has one.
Resolves(f, m) ==
  \E k \in 1..Len(incpaths) :
    /\ fs[<<incpaths[k], f>>] = {m}
    /\ \A j \in 1..(k - 1) : fs[<<incpaths[j], f>>] = {None}

\* File n has an include directive whose filename resolves to file m.
Includes(n, m) ==
  \E txt \in files[n] : \E k \in 1..Len(txt.incs) : Resolves(txt.incs[k], m)

Cyclic == Includes("A", "B") /\ Includes("B", "A")

\* The calls of cached_find_resource of this traversal for filename f.
ProbesOf(f) == SelectSeq(probes, LAMBDA p : p[2] = f)

\* The calls of cached_find_resource of this traversal that found a node.
Hits == SelectSeq(probes, LAMBDA p : p[3] # None)

\* C1: every scan that was started comes to its end, with waiting empty
\* unless a file could not be read; and when A includes B and B includes A,
\* the finished scan has passed each of A and B to extraction exactly once.
C1_ScanTerminates ==
  /\ (pc \in {"loop", "incs", "tryfind"}) ~>
       (pc = "raised" \/ (pc = "idle" /\ waiting = <<>>))
  /\ [](pc = "idle" /\ scans > 0 /\ Cyclic =>
          Count(extracted, "A") = 1 /\ Count(extracted, "B") = 1)

C1_Witness ==
  /\ pc = "idle"
  /\ scans > 0
  /\ Cyclic
  /\ Len(extracted) = 2
  /\ last.op = "return"

\* C2: self.nodes never holds the same file node twice.
C2_NoDuplicateNodes == NoDup(nodes)

\* C3: a filename is handed to tryfind_header at most once per traversal,
\* and at most one node of self.nodes comes from it.
C3_FilenameSubmittedOnce ==
  /\ NoDup(submitted)
  /\ \A f \in Filenames : Len(SelectSeq(Hits, LAMBDA p : p[2] = f)) <= 1
  /\ Len(nodes) = Len(Hits)

\* A filename that stands twice in one file, the second one passed over.
C3_Witness ==
  /\ last.op = "continue"
  /\ Count(deps.incs, last.filename) = 2
  /\ Count(submitted, last.filename) = 1
  /\ \E k \in 1..Len(nodes) : <<"d1", last.filename, nodes[k]>> \in
                                {probes[j] : j \in 1..Len(probes)}

\* C4: a file node is passed to find_deps at most once per traversal.
C4_NodeExtractedOnce == NoDup(extracted)

\* A node that was pushed onto waiting twice and extracted once.
C4_Witness ==
  /\ pc = "idle"
  /\ \E n \in Nodes :
       /\ Len(SelectSeq(Hits, LAMBDA p : p[3] = n)) = 2
       /\ Count(extracted, n) = 1

\* C5: every Symbolic Name (an unresolved include filename, "USE@" with a
\* used module, "MOD@" with a provided module) stands at most once in
\* self.names.
C5_NamesUnique ==
  /\ \A f \in Filenames : Count(names, f) <= 1
  /\ \A u \in Modules : Count(names, use_name(u)) <= 1
  /\ \A m \in Modules : Count(names, mod_name(m)) <= 1

\* Two files that use and provide the same module, scanned together.
C5_Witness ==
  /\ pc = "idle"
  /\ Len(extracted) = 2
  /\ \A n \in Nodes : \E txt \in files[n] :
       txt.uses = <<"m">> /\ txt.mods = <<"m">>
  /\ Count(names, "USE@m") = 1
  /\ Count(names, "MOD@m") = 1

\* The filenames of this traversal that no include path resolved.
Unresolved ==
  {f \in Filenames :
     /\ Contains(submitted, f)
     /\ Len(ProbesOf(f)) = Len(incpaths)
     /\ \A k \in 1..Len(ProbesOf(f)) : ProbesOf(f)[k][3] = None}

\* The modules used, and provided, by the files extracted in this traversal.
UsedModules ==
  {u \in Modules : \E k \in 1..Len(extracted) : \E txt \in files[extracted[k]] :
     Contains(txt.uses, u)}

ProvidedModules ==
  {m \in Modules : \E k \in 1..Len(extracted) : \E txt \in files[extracted[k]] :
     Contains(txt.mods, m)}

\* C6: names of different kinds never collide: a finished scan has one entry
\* in self.names for every unresolved include, one for every used module and
\* one for every provided module, none standing for two of them.
C6_KindsDistinct ==
  pc = "idle" =>
    Len(names) = Cardinality(Unresolved) + Cardinality(UsedModules)
                   + Cardinality(ProvidedModules)

\* C7: the include paths are probed in their order up to the first one that
\* gives a node; that node is the one appended, and no later path is probed.
C7_FirstMatchWins ==
  /\ \A f \in Filenames :
       LET P == ProbesOf(f)
       IN /\ Len(P) <= Len(incpaths)
          /\ \A k \in 1..Len(P) : P[k][1] = incpaths[k]
          /\ \A k \in 1..(Len(P) - 1) : P[k][3] = None
  /\ Len(nodes) = Len(Hits)
  /\ \A k \in 1..Len(Hits) :
       /\ nodes[k] = Hits[k][3]
       /\ Resolves(Hits[k][2], nodes[k])

\* The filename is found in the first include path and the second one is
\* never asked.
C7_Witness ==
  /\ last.op = "probe"
  /\ last.found \in Nodes
  /\ Len(ProbesOf(filename)) = 1
  /\ fs[<<"d2", filename>>] = {}
  /\ nodes[Len(nodes)] = last.found

\* C8: no step of tryfind_header in which no node is found (a probe that
\* gives None, the end of the include paths) changes self.nodes or
\* self.waiting; at the end of the include paths the filename stands once in
\* self.names and the scan goes on with the next include.
C8_UnresolvedRecorded ==
  [][(/\ pc = "tryfind"
      /\ (i > Len(incpaths) \/ probes'[Len(probes')][3] = None))
     => /\ nodes' = nodes
        /\ waiting' = waiting
        /\ (i > Len(incpaths) =>
              /\ filename \in Unresolved
              /\ Count(names', filename) = 1
              /\ pc' = "incs")
    ]_vars

C8_Witness ==
  /\ last.op = "miss"
  /\ filename \in Unresolved
  /\ Count(names, filename) = 1
  /\ pc = "incs"

\* C9: a call of find_deps for a file whose record is in the cache reads
\* nothing and returns the record the file's read gave.
C9_DepsCacheHit ==
  [][(/\ pc = "loop"
      /\ pc' = "incs"
      /\ LruHas(deps_cache(ctx), Head(waiting)))
     => /\ reads' = reads
        /\ {deps'} = files[Head(waiting)]
    ]_vars

\* A later scan extracts a file again and is served from the cache.
C9_Witness ==
  /\ last.op = "find_deps"
  /\ last.hit
  /\ scans = 2
  /\ reads[last.node] = 1
  /\ {deps} = files[last.node]

\* C10: a lookup whose pair is in the cache, with a node or with None, asks
\* no directory and returns what is stored; a lookup whose pair is not in the
\* cache stores what the directory gave, None included.
C10_ResolutionCached ==
  [][(pc = "tryfind" /\ i <= Len(incpaths)) =>
       LET key == <<incpaths[i], filename>>
           ret == probes'[Len(probes')][3]
       IN /\ LruHas(node_cache(ctx), key) =>
               /\ lookups' = lookups
               /\ ret = LruVal(node_cache(ctx), key)
               /\ {ret} = fs[key]
          /\ LruHas(node_cache(ctx'), key)
          /\ LruVal(node_cache(ctx'), key) = ret
    ]_vars

\* A negative result served from the cache.
C10_Witness ==
  /\ last.op = "probe"
  /\ last.hit
  /\ last.found = None
  /\ lookups[<<incpaths[i - 1], filename>>] = 1
  /\ fs[<<incpaths[i - 1], filename>>] = {None}

\* The keys a cache holds, and the n last accessed keys of s.
KeysOf(cache) == {cache[k][1] : k \in 1..Len(cache)}

LastAccessed(s, n) == {s[k] : k \in 1..(IF Len(s) < n THEN Len(s) ELSE n)}

\* C12: a read that fails is made once, leaves find_deps and start with the
\* error, stores no record for the file and leaves the outputs as they are;
\* nothing of the scan runs after it.
C12_ReadFailureFatal ==
  /\ [][(/\ pc = "loop"
         /\ reads' # reads
         /\ files'[Head(waiting)] = {Unreadable})
        => /\ pc' = "raised"
           /\ reads'[Head(waiting)] = reads[Head(waiting)] + 1
           /\ ~LruHas(deps_cache(ctx'), Head(waiting))
           /\ nodes' = nodes
           /\ names' = names
           /\ seen' = seen
       ]_vars
  /\ [][pc = "raised" => pc' = "loop" /\ scans' = scans + 1 /\ extracted' = <<>>
       ]_vars
  /\ [](\A n \in Nodes :
          files[n] = {Unreadable} => ~LruHas(deps_cache(ctx), n))

\* The read of a discovered include fails while another node is waiting.
C12_Witness ==
  /\ pc = "raised"
  /\ last.op = "IOError"
  /\ Len(extracted) = 2
  /\ files[extracted[2]] = {Unreadable}
  /\ waiting # <<>>
  /\ reads[extracted[2]] = 1

\* C13: each cache holds exactly its most recently accessed keys, as many as
\* its capacity allows: what an insertion evicts is the least recently
\* accessed entry, a get counting as an access.
C13_LruEviction ==
  /\ KeysOf(deps_cache(ctx)) =
       LastAccessed(mru.cache_fc_scan_deps, DEPS_CACHE_SIZE)
  /\ KeysOf(node_cache(ctx)) =
       LastAccessed(mru.cache_fc_scan_node, FILE_CACHE_SIZE)

\* A full cache takes a new key after a get of its older entry: the entry
\* that was not accessed is the one evicted.
C13_Witness ==
  /\ last.op = "lookup"
  /\ ~last.hit
  /\ Len(probes) = 4
  /\ probes[3][1] = probes[1][1] /\ probes[3][2] = probes[1][2]
  /\ KeysOf(node_cache(ctx)) = {<<probes[1][1], probes[1][2]>>,
                                <<probes[4][1], probes[4][2]>>}
  /\ Cardinality({<<probes[k][1], probes[k][2]>> : k \in 1..4}) = 3

\* ------------------------------------------------ the scan without caches
\* What node.read() and node.find_resource give in this session.
RefText(n) == IF files[n] = {} THEN EmptyDeps ELSE CHOOSE t \in files[n] : TRUE

\* A lookup the session never made has no known result.
RefFind(d, f) ==
  IF fs[<<d, f>>] = {} THEN "unknown" ELSE CHOOSE m \in fs[<<d, f>>] : TRUE

RefKnown(n) == n \in DOMAIN files /\ files[n] # {}

\* tryfind_header's loop from include path k on, asking the file system.
RECURSIVE RefHeader(_, _, _)
RefHeader(paths, k, f) ==
  IF k > Len(paths) THEN None
  ELSE IF is_found(RefFind(paths[k], f)) THEN RefFind(paths[k], f)
  ELSE RefHeader(paths, k + 1, f)

\* iter's loop over deps.incs on a traversal state st.
RECURSIVE RefIncs(_, _, _)
RefIncs(paths, xs, st) ==
  IF xs = <<>> THEN st
  ELSE IF inc_skip(Head(xs), st.seen) THEN RefIncs(paths, Tail(xs), st)
  ELSE LET x == Head(xs)
           found == RefHeader(paths, 1, x)
           s1 == [st EXCEPT !.seen = @ \cup {<<"str", x>>}]
           s2 == IF is_found(found)
                 THEN [s1 EXCEPT !.nodes = Append(@, found),
                                 !.waiting = waiting_push(@, found)]
                 ELSE [s1 EXCEPT !.names = append_name(@, x)]
       IN RefIncs(paths, Tail(xs), s2)

\* start's while loop on a traversal state st.
RECURSIVE RefLoop(_, _)
RefLoop(paths, st) ==
  IF st.waiting = <<>> THEN st
  ELSE LET nd == Head(st.waiting)
           s0 == [st EXCEPT !.waiting = Tail(@)]
       IN IF iter_skip(nd, st.seen) THEN RefLoop(paths, s0)
          ELSE IF ~RefKnown(nd) \/ read_raises(RefText(nd))
          THEN [s0 EXCEPT !.err = TRUE]
          ELSE LET t == RefText(nd)
                   s1 == [s0 EXCEPT !.seen = @ \cup {<<"node", nd>>}]
                   s2 == RefIncs(paths, t.incs, s1)
                   s3 == [s2 EXCEPT
                            !.names = add_mods(add_uses(@, t.uses), t.mods)]
               IN RefLoop(paths, s3)

\* fortran_parser(paths).start(node) with every read and every lookup made
\* afresh.
RefScan(node, paths) ==
  RefLoop(paths, [waiting |-> <<node>>, seen |-> {}, nodes |-> <<>>,
                  names |-> <<>>, err |-> FALSE])

\* C17: what a scan returns is what the scan without caches returns on the
\* same files and the same directory lookups, whatever the caches held when
\* it began and whatever they evicted on the way; each record and each
\* lookup result taken from a cache is the one the file or the directory
\* gives.
C17_CacheTransparent ==
  /\ [](pc = "idle" /\ scans > 0 =>
          /\ ~RefScan(root, incpaths).err
          /\ nodes = RefScan(root, incpaths).nodes
          /\ names = RefScan(root, incpaths).names)
  /\ [][probes' # probes /\ probes' # <<>> =>
          LET p == probes'[Len(probes')]
          IN fs'[<<p[1], p[2]>>] = {p[3]}]_vars
  /\ [][extracted' # extracted /\ pc' = "incs" =>
          files'[extracted'[Len(extracted')]] = {deps'}]_vars

\* The second scan of a session returns from a warm cache: its only file was
\* read by the first scan, which evicted its own root's record on the way.
C17_Witness ==
  /\ pc = "idle"
  /\ scans = 2
  /\ last.op = "return"
  /\ root = "B"
  /\ extracted = <<"B">>
  /\ reads["B"] = 1
  /\ reads["A"] = 1
  /\ Includes("A", "B")
  /\ RefText("B").incs = <<>>
  /\ names # <<>>
  /\ Len(mru.cache_fc_scan_deps) > DEPS_CACHE_SIZE

\* The file nodes of a sequence.
Range(s) == {s[k] : k \in 1..Len(s)}

\* C18: when start returns, waiting is empty, every node of self.nodes has
\* been passed to extraction, and the nodes of self.nodes are exactly the
\* nodes that the include filenames of the root and of the nodes of
\* self.nodes resolve to.
C18_ClosureComplete ==
  (pc = "idle" /\ scans > 0) =>
    /\ waiting = <<>>
    /\ Range(nodes) \subseteq Range(extracted)
    /\ Range(nodes) =
         {m \in Nodes : \E n \in {root} \cup Range(nodes) : Includes(n, m)}

\* A returns after its include B was found, extracted and its own include
\* directive looked up.
C18_Witness ==
  /\ pc = "idle"
  /\ last.op = "return"
  /\ root = "A"
  /\ nodes = <<"B">>
  /\ extracted = <<"A", "B">>
  /\ Len(RefText("A").incs) = 1
  /\ Len(RefText("B").incs) >= 1
  /\ ~Includes("B", "A")
  /\ ~Includes("B", "B")

\* C19: the node appended to self.nodes is never the root and never a node
\* that this traversal has already passed to extraction.
C19_OnlyNewNodes ==
  [][nodes' # nodes /\ nodes' # <<>> =>
       /\ nodes'[Len(nodes')] # root
       /\ ~Contains(extracted, nodes'[Len(nodes')])]_vars

\* C15 as stated: every call of start begins with waiting = [root] and with
\* seen, names and self.nodes empty.
C15_EveryStartFresh ==
  [][pc' = "loop" /\ scans' = scans + 1 =>
       /\ waiting' = <<root'>>
       /\ seen' = {}
       /\ names' = <<>>
       /\ nodes' = <<>>]_vars

\* C15 amended: every call of start begins with waiting = [root]; seen,
\* names and self.nodes are empty when the parser was constructed for this
\* call, and are those of the scan before when start is called again on the
\* same parser.
C15_FreshPerParser ==
  [][pc' = "loop" /\ scans' = scans + 1 =>
       /\ waiting' = <<root'>>
       /\ last'.op = "start" => seen' = {} /\ names' = <<>> /\ nodes' = <<>>
       /\ last'.op = "restart" =>
            seen' = seen /\ names' = names /\ nodes' = nodes]_vars

\* start has just been called again on a parser whose first scan found a
\* node.
C15_Witness ==
  /\ last.op = "restart"
  /\ pc = "loop"
  /\ waiting = <<root>>
  /\ nodes # <<>>
  /\ seen # {}

\* s with every later occurrence of an element removed.
RECURSIVE Dedup(_)
Dedup(s) ==
  IF s = <<>> THEN <<>>
  ELSE LET d == Dedup(SubSeq(s, 1, Len(s) - 1))
       IN IF Contains(d, s[Len(s)]) THEN d ELSE Append(d, s[Len(s)])

IsPrefix(s, t) == Len(s) <= Len(t) /\ SubSeq(t, 1, Len(s)) = s

WordsOf == {Cat(cs) : cs \in BSeq({kw_module, kw_procedure, w_bar, w_s}, 3)}
             \ {<<>>}

\* C14: "module procedure bar" gives no provided name, "module bar" gives
\* bar, and "module W" gives W for every word W other than the keyword
\* procedure.
C14_ModuleProcedureExcluded ==
  last.op = "findall" =>
    /\ stmt = Cat(<<kw_module, <<" ">>, kw_procedure, <<" ">>, w_bar>>) =>
         mods_found = <<>>
    /\ stmt = Cat(<<kw_module, <<" ">>, w_bar>>) => mods_found = <<w_bar>>
    /\ \A w \in WordsOf :
         w # kw_procedure /\ stmt = kw_module \o <<" ">> \o w =>
           mods_found = <<w>>

\* The lru_cache objects constructed for an attribute of the context.
Installed(a) == {k \in 1..Len(heap) : heap[k].attr = a}

\* C11: each of the two caches is constructed and installed at most once.
C11_SingleInstall ==
  /\ Cardinality(Installed("cache_fc_scan_deps")) <= 1
  /\ Cardinality(Installed("cache_fc_scan_node")) <= 1

\* What every cache object holds is what the file or the directory gave.
Coherent ==
  \A k \in 1..Len(heap) : \A e \in 1..Len(heap[k].data) :
    LET key == heap[k].data[e][1]
        val == heap[k].data[e][2]
    IN IF heap[k].attr = "cache_fc_scan_deps"
       THEN key \in DOMAIN files /\ files[key] = {val}
       ELSE key \in DOMAIN fs /\ fs[key] = {val}

\* C20: a scan that runs among other scans of the session returns the nodes
\* and names of the scan made alone on the same files and lookups, and fails
\* when that one fails; no cache object ever holds anything but what the
\* file or the directory gave.
C20_NoInterference ==
  /\ Coherent
  /\ \A t \in DOMAIN th :
       /\ th[t].pc = "done" =>
            /\ ~RefScan(th[t].root, th[t].incpaths).err
            /\ th[t].nodes = RefScan(th[t].root, th[t].incpaths).nodes
            /\ th[t].names = RefScan(th[t].root, th[t].incpaths).names
       /\ th[t].pc = "raised" => RefScan(th[t].root, th[t].incpaths).err

\* Two scans have returned after one replaced the cache object the other
\* had installed; one found a node, one has a name.
C20_Witness ==
  /\ DOMAIN th = 1..MaxCallers
  /\ \A t \in DOMAIN th : th[t].pc = "done"
  /\ Len(heap) > 2
  /\ \E t \in DOMAIN th : th[t].nodes # <<>>
  /\ \E t \in DOMAIN th : th[t].names # <<>>
  /\ th[1].root # th[2].root

====
